---- MODULE Spec2Model ----
(***************************************************************************)
(* Model of sync_functions.py of zotero2remarkable_bridge: the tag-driven  *)
(* synchronisation between a Zotero library, a WebDAV store that emulates  *)
(* Zotero's attachment storage, and a reMarkable tablet.                   *)
(*                                                                         *)
(* Every function of the file is one atomic action.  The outcomes of the   *)
(* external collaborators (WebDAV put/get, the tablet client, the library  *)
(* API, the renderer) are inputs of the actions, drawn with \E.            *)
(***************************************************************************)
EXTENDS Integers, Sequences, FiniteSets, TLC

VARIABLES
    webdav,     \* configuration: TRUE when attachments are stored on WebDAV
    itemTags,   \* library: item -> set of tags
    atts,       \* library: sequence of attachment records, the key is the index
    remote,     \* WebDAV store: remote path -> content
    local,      \* scratch directory (tempfile.gettempdir()): path -> content
    cwd,        \* names of the files extracted into the working directory
    sent,       \* attachment keys whose file the tablet accepted
    last        \* what the last call did (history, read by the properties)

vars == <<webdav, itemTags, atts, remote, local, cwd, sent, last>>

----------------------------------------------------------------------------
(* Bounds of the model *)

NumItems == 2        \* library items
NumStems == 2        \* distinct file stems ("a", "b", ...)
MaxInitAtts == 3     \* attachments in the library before the first call
MaxAtts == 4         \* attachment records the library may hold in the model
NumBytes == 1        \* distinct file contents

(* range(3) of webdav_uploader *)
MaxAttempts == 3

Items == 1..NumItems
Stems == 1..NumStems
Keys == 1..MaxAtts
Bytes == 1..NumBytes

----------------------------------------------------------------------------
(* File names and paths.  A file name is <<kind, stem>>:                   *)
(*   <<"pdf", s>>  is  "{s}.pdf"                                           *)
(*   <<"ann", s>>  is  "(Annotated) {s}.pdf"                               *)
(*   <<"md", s>>   is  "{s} _obsidian.md"                                  *)
(* and the scratch directory also holds "{key}.zip", "{key}.prop",         *)
(* "{s}.rmdoc" and the directory "{s}-unzipped".                           *)

PdfName(s) == <<"pdf", s>>
AnnotatedName(s) == <<"ann", s>>
MdName(s) == <<"md", s>>
ZipPath(k) == <<"zip", k>>
PropPath(k) == <<"prop", k>>
RmdocPath(s) == <<"rmdoc", s>>
UnzipPath(s) == <<"unz", s>>

Names == {"pdf", "ann", "md"} \X Stems
RemotePaths == {"zip", "prop"} \X Keys
LocalPaths == Names \cup RemotePaths \cup ({"rmdoc", "unz"} \X Stems)

(* File contents *)
NoFile == [kind |-> "none", data |-> 0, entries |-> <<>>]
RawFile(d) == [kind |-> "raw", data |-> d, entries |-> <<>>]
(* mutant: the archive is written without its entry *)
EmptyZip(es) == [kind |-> "zip", data |-> 0, entries |-> <<>>]
ZipFile(es) == [kind |-> "zip", data |-> 0, entries |-> es]
IsFile(c) == c.kind # "none"

(* get_md5: None (0 here) when the file is missing, else a digest of the bytes *)
NoneHash == 0
get_md5(c) == IF IsFile(c) THEN 100 + c.data ELSE NoneHash

(* the properties document written at line 200: mtime is abstracted *)
PropFile(h) == [kind |-> "prop", data |-> h, entries |-> <<>>]

----------------------------------------------------------------------------
(* Library helpers *)

Attachment(p, n, isPdf, d) ==
    [parent |-> p, name |-> n, pdf |-> isPdf, tags |-> {}, data |-> d]

RECURSIVE SelectKeys(_, _, _)
SelectKeys(as, p, k) ==
    IF k > Len(as) THEN <<>>
    ELSE (IF as[k].parent = p THEN <<k>> ELSE <<>>) \o SelectKeys(as, p, k + 1)

(* zot.children(item_id): the keys of the item's attachments, in library order *)
children(as, p) == SelectKeys(as, p, 1)

(* the record of a call: which call, on what, and what it did *)
NoLast == [op |-> "none", item |-> 0, stem |-> 0,
           attempted |-> <<>>, uploaded |-> {}, raised |-> FALSE,
           matched |-> 0, wasAnnotated |-> FALSE, stored |-> FALSE,
           success |-> FALSE, files |-> <<>>, puts |-> <<>>]

----------------------------------------------------------------------------
(* webdav_downloader, lines 53-63 *)

RECURSIVE ExtractAll(_, _, _)
(* zf.extractall(path): every entry of the archive is written under its name *)
ExtractAll(loc, es, i) ==
    IF i > Len(es) THEN loc
    ELSE ExtractAll([loc EXCEPT ![es[i][1]] = RawFile(es[i][2])], es, i + 1)

EntryNames(es) == {es[i][1] : i \in 1..Len(es)}

(* net is what webdav.download_sync does: "ok", or "raise" (it throws).     *)
(* The result is the scratch directory and the working directory after the *)
(* call, and whether the call raised.                                      *)
webdav_downloader(rem, loc, wd, k, name, net) ==
    IF net = "raise" \/ ~IsFile(rem[ZipPath(k)])
    THEN [raised |-> TRUE, local |-> loc, cwd |-> wd]
    ELSE LET got == [loc EXCEPT ![ZipPath(k)] = rem[ZipPath(k)]]
             zf == got[ZipPath(k)]
         IN IF zf.kind # "zip"
            THEN [raised |-> TRUE, local |-> got, cwd |-> wd]
            ELSE LET ex == ExtractAll(got, zf.entries, 1)
                 IN [raised |-> FALSE,
                     local |-> IF IsFile(ex[name])
                               THEN [ex EXCEPT ![ZipPath(k)] = NoFile]
                               ELSE ex,
                     cwd |-> wd \cup EntryNames(zf.entries)]

(* zot.dump(attachment_id, path=temp_path): the library writes the file of *)
(* the attachment under its filename, or throws                            *)
zot_dump(as, loc, wd, k, net) ==
    IF net = "raise"
    THEN [raised |-> TRUE, local |-> loc, cwd |-> wd]
    ELSE [raised |-> FALSE,
          local |-> [loc EXCEPT ![as[k].name] = RawFile(as[k].data)],
          cwd |-> wd]

----------------------------------------------------------------------------
(* sync_to_rm, lines 20-51 *)

(* What the collaborators do for one attachment of the call:               *)
(*   "ok"          the fetch and the tablet upload succeed                 *)
(*   "upload_fail" the fetch succeeds, rmapi.upload_file returns False     *)
(*   "fetch_raise" the fetch (download_sync / zot.dump) throws             *)
AttOutcomes == {"ok", "upload_fail", "fetch_raise"}

(* one iteration of the loop of line 26 on the attachment with key k *)
SyncOne(st, wdv, as, rem, k, out) ==
    IF ~as[k].pdf THEN st
    ELSE LET name == as[k].name
             f == IF wdv
                  THEN webdav_downloader(rem, st.local, st.cwd, k, name,
                           IF out = "fetch_raise" THEN "raise" ELSE "ok")
                  ELSE zot_dump(as, st.local, st.cwd, k,
                           IF out = "fetch_raise" THEN "raise" ELSE "ok")
             st1 == [st EXCEPT !.attempted = Append(@, k),
                               !.local = f.local, !.cwd = f.cwd]
         IN IF f.raised THEN [st1 EXCEPT !.raised = TRUE]
            ELSE IF out = "ok" /\ IsFile(f.local[name])
                 THEN [st1 EXCEPT !.modified = TRUE,
                                  !.local = [f.local EXCEPT ![name] = NoFile],
                                  !.uploaded = @ \cup {k}]
                 ELSE st1

RECURSIVE SyncLoop(_, _, _, _, _, _, _)
SyncLoop(st, wdv, as, rem, ch, outs, i) ==
    IF i > Len(ch) \/ st.raised THEN st
    ELSE SyncLoop(SyncOne(st, wdv, as, rem, ch[i], outs[i]),
                  wdv, as, rem, ch, outs, i + 1)

(* zot.add_tags(item, "synced"); zot.delete_tags("to_sync"), lines 50-51:  *)
(* delete_tags removes the tag from the whole library                      *)
TagSynced(tags, i) ==
    [j \in Items |-> (IF j = i THEN tags[j] \cup {"synced"} ELSE tags[j])
                     \ {"to_sync"}]

sync_to_rm(i, outs) ==
    LET ch == children(atts, i)
        st0 == [local |-> local, cwd |-> cwd, modified |-> FALSE,
                attempted |-> <<>>, uploaded |-> {}, raised |-> FALSE]
        st == SyncLoop(st0, webdav, atts, remote, ch, outs, 1)
    IN /\ local' = st.local
       /\ cwd' = st.cwd
       /\ sent' = sent \cup st.uploaded
       /\ itemTags' = IF st.modified /\ ~st.raised
                      THEN TagSynced(itemTags, i)
                      ELSE itemTags
       /\ last' = [NoLast EXCEPT !.op = "sync_to_rm", !.item = i,
                                 !.attempted = st.attempted,
                                 !.uploaded = st.uploaded,
                                 !.raised = st.raised]
       /\ UNCHANGED <<webdav, atts, remote>>

(* The sync pass calls sync_to_rm on the items tagged to_sync *)
SyncPass ==
    \E i \in Items :
        /\ "to_sync" \in itemTags[i]
        /\ \E outs \in [1..Len(children(atts, i)) -> AttOutcomes] :
               sync_to_rm(i, outs)

----------------------------------------------------------------------------
(* webdav_uploader, lines 102-111 *)

(* What the store does on one put: it succeeds, fails transiently, or      *)
(* reports that the path is not found.  upload_sync throws on both kinds   *)
(* of failure.                                                             *)
PutOutcomes == {"ok", "fail", "notfound"}

(* the result of a call: what it returned, whether an exception left it,  *)
(* how often it called upload_sync and how often it slept                  *)
PutResult(ok, raised, calls, sleeps) ==
    [ok |-> ok, raised |-> raised, calls |-> calls, sleeps |-> sleeps]

RECURSIVE UploadAttempts(_, _)
(* attempt i of the for loop; pat[i] is what the store does on attempt i.  *)
(* The bare except catches every exception of upload_sync.                 *)
UploadAttempts(pat, i) ==
    IF i > MaxAttempts
    THEN PutResult(FALSE, FALSE, i - 1, i - 1)
    ELSE IF pat[i] = "ok"
         THEN PutResult(TRUE, FALSE, i, i - 1)
         ELSE UploadAttempts(pat, i + 1)

RECURSIVE GiveUpEarly(_, _)
(* mutant: the loop runs range(2) *)
GiveUpEarly(pat, i) ==
    IF i > MaxAttempts - 1
    THEN PutResult(FALSE, FALSE, i - 1, i - 1)
    ELSE IF pat[i] = "ok"
         THEN PutResult(TRUE, FALSE, i, i - 1)
         ELSE GiveUpEarly(pat, i + 1)

webdav_uploader_range2(pat) == GiveUpEarly(pat, 1)

(* mutant: the loop does not return on success *)
webdav_uploader_no_return(pat) ==
    PutResult(\E i \in 1..MaxAttempts : pat[i] = "ok", FALSE,
              MaxAttempts, MaxAttempts)

webdav_uploader(pat) == UploadAttempts(pat, 1)

----------------------------------------------------------------------------
(* add_to_zotero, lines 155-219 *)

(* the inputs of one file of the list: does zot.create_items succeed, and  *)
(* what does the store do on the puts of the container and of the          *)
(* properties file                                                         *)
NoPuts == [i \in 1..MaxAttempts |-> "ok"]

(* one iteration of the loop of line 166 on the local file `path` *)
AddOne(st, item, path, inp) ==
    LET src == st.local[path]
        md5 == get_md5(src)
    IN IF ~inp.create
       THEN [st EXCEPT !.success = FALSE, !.returned = TRUE,
                       !.files = Append(@, [path |-> path, key |-> 0,
                                            zipOk |-> FALSE, propOk |-> FALSE])]
       ELSE LET key == Len(st.atts) + 1
                zip == ZipFile(<< <<path, src.data>> >>)
                zipUp == webdav_uploader(inp.zip)
                prop == PropFile(md5)
                propUp == webdav_uploader(inp.prop)
                rem1 == IF zipUp.ok
                        THEN [st.remote EXCEPT ![ZipPath(key)] = zip]
                        ELSE st.remote
                rem2 == IF propUp.ok
                        THEN [rem1 EXCEPT ![PropPath(key)] = prop]
                        ELSE rem1
            IN [st EXCEPT
                  !.atts = Append(@, Attachment(item, path, FALSE, src.data)),
                  !.remote = rem2,
                  !.local = [@ EXCEPT ![path] = NoFile,
                                      ![ZipPath(key)] = NoFile,
                                      ![PropPath(key)] = NoFile],
                  !.success = @ /\ zipUp.ok /\ propUp.ok,
                  !.files = Append(@, [path |-> path, key |-> key,
                                       zipOk |-> zipUp.ok,
                                       propOk |-> propUp.ok])]

RECURSIVE AddLoop(_, _, _, _, _)
AddLoop(st, item, paths, inps, i) ==
    IF i > Len(paths) \/ st.returned THEN st
    ELSE AddLoop(AddOne(st, item, paths[i], inps[i]), item, paths, inps, i + 1)

(* mutant: result['success'] is never set to False *)
add_to_zotero_always_true(as, rem, loc, paths, item, inps) ==
    [AddLoop([atts |-> as, remote |-> rem, local |-> loc, success |-> TRUE,
              returned |-> FALSE, files |-> <<>>],
             item, paths, inps, 1) EXCEPT !.success = TRUE]

(* the library, the store and the scratch directory after the call, and    *)
(* result['success']                                                       *)
add_to_zotero(as, rem, loc, paths, item, inps) ==
    AddLoop([atts |-> as, remote |-> rem, local |-> loc, success |-> TRUE,
             returned |-> FALSE, files |-> <<>>],
            item, paths, inps, 1)

(* zot.attachment_simple(files, item_id): the library's own storage.  It    *)
(* answers success (the records are created), unchanged or failure.        *)
NativeOutcomes == {"success", "unchanged", "failure"}

RECURSIVE AttachAll(_, _, _, _, _)
AttachAll(as, loc, item, paths, i) ==
    IF i > Len(paths) THEN as
    ELSE AttachAll(Append(as, Attachment(item, paths[i], paths[i][1] = "ann",
                                         loc[paths[i]].data)),
                   loc, item, paths, i + 1)

attachment_simple(as, rem, loc, paths, item, out) ==
    [atts |-> IF out = "success" THEN AttachAll(as, loc, item, paths, 1) ELSE as,
     remote |-> rem, local |-> loc, success |-> out # "failure",
     returned |-> FALSE, files |-> <<>>]

----------------------------------------------------------------------------
(* zotero_upload, lines 113-152 *)

RECURSIVE FirstMatchFrom(_, _, _, _)
(* the loops of lines 123 and 127: the items tagged synced in library      *)
(* order, their attachments in order; the first whose filename is `name`   *)
FirstMatchFrom(tags, as, name, i) ==
    IF i > NumItems THEN 0
    ELSE LET hits == SelectSeq(children(as, i), LAMBDA k : as[k].name = name)
         IN IF "synced" \in tags[i] /\ Len(hits) > 0
            THEN hits[1]
            ELSE FirstMatchFrom(tags, as, name, i + 1)

FirstMatch(tags, as, name) == FirstMatchFrom(tags, as, name, 1)

(* mutant: the tag lands on the attachment record created last *)
AddTagToNewest(as, k, t) == [as EXCEPT ![Len(as)].tags = @ \cup {t}]

(* zot.add_tags(attachment, "annotated"), line 141 *)
AddTag(as, k, t) == [as EXCEPT ![k].tags = @ \cup {t}]

(* mutant: the guard of line 130 is missing *)
NeverUploaded(as, m) == FALSE

(* already_uploaded_annotation, line 129 *)
AlreadyUploaded(as, m) == "annotated" \in as[m].tags

(* files_to_upload, lines 131-133 *)
FilesToUpload(loc, s) ==
    <<AnnotatedName(s)>> \o
        (IF IsFile(loc[MdName(s)]) THEN <<MdName(s)>> ELSE <<>>)

(* mutant: the file is unlinked instead of renamed *)
RenameDropping(loc, from, to) == [loc EXCEPT ![from] = NoFile]

(* pdf_path.rename(annotated_path), line 121 *)
Rename(loc, from, to) == [loc EXCEPT ![to] = loc[from], ![from] = NoFile]

(* mutant: the tag is added whatever the store answered *)
StoreAndTagAlways(s, m, r) ==
    /\ atts' = AddTag(r.atts, m, "annotated")
    /\ remote' = r.remote
    /\ local' = r.local
    /\ last' = [NoLast EXCEPT !.op = "zotero_upload", !.stem = s,
                              !.matched = m, !.item = atts[m].parent,
                              !.stored = TRUE, !.success = r.success,
                              !.files = r.files]

(* the store branch, lines 131-146: `r` is what add_to_zotero or          *)
(* zot.attachment_simple returned                                          *)
StoreAndTag(s, m, r) ==
    /\ atts' = IF r.success THEN AddTag(r.atts, m, "annotated") ELSE r.atts
    /\ remote' = r.remote
    /\ local' = r.local
    /\ last' = [NoLast EXCEPT !.op = "zotero_upload", !.stem = s,
                              !.matched = m, !.item = atts[m].parent,
                              !.stored = TRUE, !.success = r.success,
                              !.files = r.files]

(* The puts of one add_to_zotero call: the store answers every put of the  *)
(* call, or fails every put, or fails the first attempt only, or reports   *)
(* the path missing                                                        *)
PutPatterns ==
    {[i \in 1..MaxAttempts |-> "ok"],
     [i \in 1..MaxAttempts |-> "fail"],
     [i \in 1..MaxAttempts |-> IF i = 1 THEN "fail" ELSE "ok"],
     [i \in 1..MaxAttempts |-> "notfound"]}

FileInputs ==
    {[create |-> FALSE, zip |-> NoPuts, prop |-> NoPuts]} \cup
    [create : {TRUE}, zip : PutPatterns, prop : PutPatterns]

zotero_upload(s) ==
    LET renamed == Rename(local, PdfName(s), AnnotatedName(s))
        m == FirstMatch(itemTags, atts, PdfName(s))
        paths == FilesToUpload(renamed, s)
        base == [NoLast EXCEPT !.op = "zotero_upload", !.stem = s, !.matched = m]
    IN /\ IsFile(local[PdfName(s)])
       /\ IF m = 0
          THEN /\ local' = renamed
               /\ last' = base
               /\ UNCHANGED <<atts, remote>>
          ELSE IF AlreadyUploaded(atts, m)
          THEN /\ local' = renamed
               /\ last' = [base EXCEPT !.wasAnnotated = TRUE,
                                       !.item = atts[m].parent]
               /\ UNCHANGED <<atts, remote>>
          ELSE /\ Len(atts) + Len(paths) <= MaxAtts
               /\ IF webdav
                  THEN \E inps \in [1..Len(paths) -> FileInputs] :
                           StoreAndTag(s, m, add_to_zotero(atts, remote, renamed,
                                           paths, atts[m].parent, inps))
                  ELSE \E out \in NativeOutcomes :
                           StoreAndTag(s, m, attachment_simple(atts, remote,
                                           renamed, paths, atts[m].parent, out))
       /\ UNCHANGED <<webdav, itemTags, cwd, sent>>

(* The pass hands zotero_upload the file download_from_rm just returned *)
UploadBack ==
    \E s \in Stems :
        /\ last.op = "download_from_rm" /\ last.success /\ last.stem = s
        /\ zotero_upload(s)

----------------------------------------------------------------------------
(* download_from_rm, lines 65-90 *)

MdFile == [kind |-> "raw", data |-> 0, entries |-> <<>>]
Dir == [kind |-> "dir", data |-> 0, entries |-> <<>>]

(* the documents the tablet holds: the stems of the files it accepted *)
OnTablet(as, snt) == {as[k].name[2] : k \in {x \in snt : as[x].name[1] = "pdf"}}

(* download: does rmapi.download_file fetch "{entity}.rmdoc";              *)
(* render: does remarks write "{entity} _remarks.pdf" ("ok") or throw      *)
(* ("raise"); md: does it also write "{entity} _obsidian.md"; d: the bytes *)
(* of the rendered PDF.  last.puts records what the download did and, if  *)
(* the call came to rendering, what the renderer did.                      *)
download_from_rm(s, download, render, md, d) ==
    LET got == IF download
               THEN [local EXCEPT ![RmdocPath(s)] = ZipFile(<<>>)]
               ELSE local
        unzipped == [got EXCEPT ![UnzipPath(s)] = Dir]
        rendered == [unzipped EXCEPT ![PdfName(s)] = RawFile(d),
                                     ![MdName(s)] = IF md THEN MdFile ELSE @,
                                     ![RmdocPath(s)] = NoFile,
                                     ![UnzipPath(s)] = NoFile]
        dl == IF download THEN "ok" ELSE "fail"
        base == [NoLast EXCEPT !.op = "download_from_rm", !.stem = s]
    IN /\ IF ~IsFile(got[RmdocPath(s)])
          THEN /\ local' = got
               /\ last' = [base EXCEPT !.raised = TRUE, !.puts = <<dl>>]
          ELSE IF render # "ok"
          THEN /\ local' = unzipped
               /\ last' = [base EXCEPT !.raised = TRUE,
                                       !.puts = <<dl, render>>]
          ELSE /\ local' = rendered
               /\ last' = [base EXCEPT !.success = TRUE,
                                       !.puts = <<dl, render>>]
       /\ UNCHANGED <<webdav, itemTags, atts, remote, cwd, sent>>

RenderOutcomes == {"ok", "raise"}

(* The pass pulls the documents the tablet lists *)
PullFromTablet ==
    \E s \in OnTablet(atts, sent), download \in BOOLEAN,
       render \in RenderOutcomes, md \in BOOLEAN, d \in Bytes :
        download_from_rm(s, download, render, md, d)

----------------------------------------------------------------------------
(* The initial states: a library the user filled, nothing synced yet.    *)
(* Item 1 waits for its sync, the other items wait for it or were read.   *)
(* The attachments are named "{stem}.pdf" with the stems taken in turn,   *)
(* each item's attachments are contiguous in the library, and the last    *)
(* attachment may be of another content type than PDF.                    *)

InitTags ==
    {t \in [Items -> {{"to_sync"}, {"read"}}] : t[1] = {"to_sync"}}

StemOf(k) == ((k - 1) % NumStems) + 1

InitLibraries ==
    UNION {{[k \in 1..n |-> Attachment(par[k], PdfName(StemOf(k)),
                                       k < n \/ lastPdf, 1)] :
                par \in {q \in [1..n -> Items] :
                            \A k \in 1..(n - 1) : q[k] <= q[k + 1]},
                lastPdf \in BOOLEAN} :
           n \in 0..MaxInitAtts}

(* on WebDAV every attachment of the library has its container and its    *)
(* properties file                                                        *)
InitRemote(wdv, as) ==
    [p \in RemotePaths |->
        IF wdv /\ p[2] <= Len(as)
        THEN IF p[1] = "zip"
             THEN ZipFile(<< <<as[p[2]].name, as[p[2]].data>> >>)
             ELSE PropFile(get_md5(RawFile(as[p[2]].data)))
        ELSE NoFile]

Init ==
    /\ webdav \in BOOLEAN
    /\ itemTags \in InitTags
    /\ atts \in InitLibraries
    /\ remote = InitRemote(webdav, atts)
    /\ local = [p \in LocalPaths |-> NoFile]
    /\ cwd = {}
    /\ sent = {}
    /\ last = NoLast

(* a rendered file was returned to the pass and waits for its upload-back *)
Pending == last.op = "download_from_rm" /\ last.success

Next ==
    \/ ~Pending /\ SyncPass
    \/ ~Pending /\ PullFromTablet
    \/ UploadBack

Spec == Init /\ [][Next]_vars

----------------------------------------------------------------------------
(* webdav_uploader on its own: the initial states draw what the store does *)
(* on each attempt (one attempt more than the loop makes), the action      *)
(* applies the function.                                                   *)

PutPatternsAll == [1..(MaxAttempts + 1) -> PutOutcomes]

UploaderInit ==
    /\ webdav = TRUE
    /\ itemTags = [i \in Items |-> {}]
    /\ atts = <<>>
    /\ remote = InitRemote(webdav, atts)
    /\ local = [p \in LocalPaths |-> NoFile]
    /\ cwd = {}
    /\ sent = {}
    /\ \E pat \in PutPatternsAll :
           last = [NoLast EXCEPT !.op = "put_pattern", !.puts = <<pat>>]

UploaderCall ==
    /\ last.op = "put_pattern"
    /\ last' = [last EXCEPT !.op = "webdav_uploader",
                            !.puts = <<last.puts[1],
                                       webdav_uploader(last.puts[1])>>]
    /\ UNCHANGED <<webdav, itemTags, atts, remote, local, cwd, sent>>

UploaderNext == UploaderCall

UploaderSpec == UploaderInit /\ [][UploaderNext]_vars

(* the pattern and the result of the call of UploaderSpec *)
PutPat == last.puts[1]
PutRes == last.puts[2]
PutDone == last.op = "webdav_uploader"

----------------------------------------------------------------------------
(* The container format on its own: add_to_zotero writes containers,       *)
(* webdav_downloader fetches and decodes them, sync_to_rm pushes what was  *)
(* decoded.  The library starts with one PDF attachment whose container    *)
(* on the store is any archive of up to MaxEntries entries, and the        *)
(* scratch directory holds one file that waits to be stored.               *)

NumCodecBytes == 2   \* distinct file contents of the container checks
MaxEntries == 2      \* entries of a container found on the store

CodecBytes == 1..NumCodecBytes

RECURSIVE SeqsUpTo(_, _)
(* the sequences over S of length 0..n *)
SeqsUpTo(S, n) ==
    IF n = 0 THEN {<<>>}
    ELSE LET shorter == SeqsUpTo(S, n - 1)
         IN shorter \cup {Append(q, x) : q \in {r \in shorter : Len(r) = n - 1},
                                         x \in S}

(* the archives "{key}.zip" may be: each entry is <<filename, bytes>> *)
Archives ==
    {ZipFile(es) : es \in SeqsUpTo(({"pdf"} \X Stems) \X CodecBytes, MaxEntries)}

CodecLibrary == <<Attachment(1, PdfName(1), TRUE, 1)>>

CodecInit ==
    /\ webdav = TRUE
    /\ itemTags = [i \in Items |-> IF i = 1 THEN {"to_sync"} ELSE {}]
    /\ atts = CodecLibrary
    /\ \E z \in Archives :
           remote = [InitRemote(webdav, atts) EXCEPT ![ZipPath(1)] = z]
    /\ \E d \in CodecBytes :
           local = [p \in LocalPaths |->
                       IF p = AnnotatedName(1) THEN RawFile(d) ELSE NoFile]
    /\ cwd = {}
    /\ sent = {}
    /\ last = NoLast

(* add_to_zotero([name], item 1) on the annotated file of the scratch      *)
(* directory, once                                                        *)
CodecStore ==
    \E n \in {AnnotatedName(x) : x \in Stems}, inps \in [1..1 -> FileInputs] :
        /\ IsFile(local[n])
        /\ Len(atts) = Len(CodecLibrary)
        /\ LET r == add_to_zotero(atts, remote, local, <<n>>, 1, inps)
           IN /\ atts' = r.atts
              /\ remote' = r.remote
              /\ local' = r.local
              /\ last' = [NoLast EXCEPT !.op = "add_to_zotero", !.item = 1,
                                        !.success = r.success,
                                        !.files = r.files]
        /\ UNCHANGED <<webdav, itemTags, cwd, sent>>

(* webdav_downloader(attachment k, its filename); net is what             *)
(* download_sync does                                                     *)
CodecFetch ==
    \E k \in 1..Len(atts), net \in {"ok", "raise"} :
        LET r == webdav_downloader(remote, local, cwd, k, atts[k].name, net)
        IN /\ local' = r.local
           /\ cwd' = r.cwd
           /\ last' = [NoLast EXCEPT !.op = "webdav_downloader", !.item = k,
                                     !.raised = r.raised, !.puts = <<net>>]
           /\ UNCHANGED <<webdav, itemTags, atts, remote, sent>>

CodecNext ==
    \/ CodecStore
    \/ CodecFetch
    \/ SyncPass

CodecSpec == CodecInit /\ [][CodecNext]_vars

----------------------------------------------------------------------------
(* get_sync_status, lines 221-228 *)

(* mutant: the items are not filtered by the tag *)
AllPdfNames(tags, as) ==
    LET ks == SelectSeq([k \in 1..Len(as) |-> k], LAMBDA k : as[k].pdf)
    IN [n \in 1..Len(ks) |-> as[ks[n]].name]

RECURSIVE ReadListFrom(_, _, _)
(* the loops of lines 223 and 224: the items tagged read in library order, *)
(* the filenames of their attachments of content type application/pdf     *)
ReadListFrom(tags, as, i) ==
    IF i > NumItems THEN <<>>
    ELSE LET ks == SelectSeq(children(as, i), LAMBDA k : as[k].pdf)
         IN (IF "read" \in tags[i]
             THEN [n \in 1..Len(ks) |-> as[ks[n]].name]
             ELSE <<>>) \o ReadListFrom(tags, as, i + 1)

get_sync_status(tags, as) == ReadListFrom(tags, as, 1)

(* get_sync_status on its own: the initial states draw a library whose     *)
(* items carry any of the tags read and synced and whose attachments are   *)
(* of any content type; the action applies the function.                   *)

StatusTags == [Items -> SUBSET {"read", "synced"}]

StatusLibraries ==
    UNION {{[k \in 1..n |-> Attachment(par[k], PdfName(StemOf(k)), isPdf[k], 1)] :
                par \in [1..n -> Items], isPdf \in [1..n -> BOOLEAN]} :
           n \in 0..MaxInitAtts}

StatusInit ==
    /\ webdav = FALSE
    /\ itemTags \in StatusTags
    /\ atts \in StatusLibraries
    /\ remote = InitRemote(webdav, atts)
    /\ local = [p \in LocalPaths |-> NoFile]
    /\ cwd = {}
    /\ sent = {}
    /\ last = NoLast

(* the returned list is recorded in last.files *)
StatusCall ==
    /\ last.op = "none"
    /\ last' = [NoLast EXCEPT !.op = "get_sync_status",
                              !.files = get_sync_status(itemTags, atts)]
    /\ UNCHANGED <<webdav, itemTags, atts, remote, local, cwd, sent>>

StatusNext == StatusCall

StatusSpec == StatusInit /\ [][StatusNext]_vars

----------------------------------------------------------------------------
(* Properties *)

SyncDone == last.op = "sync_to_rm"
UploadDone == last.op = "zotero_upload"

(* the PDF attachments of item i, in library order *)
PdfChildren(as, i) == SelectSeq(children(as, i), LAMBDA k : as[k].pdf)

(* C1: on the remote store a properties file {key}.prop is present only   *)
(* if the container {key}.zip is present, and a file whose container      *)
(* upload failed has no properties file uploaded.                         *)
C1_PropOnlyWithContainer ==
    /\ \A k \in Keys : IsFile(remote[PropPath(k)]) => IsFile(remote[ZipPath(k)])
    /\ UploadDone =>
           \A n \in 1..Len(last.files) :
               ~last.files[n].zipOk => ~last.files[n].propOk

(* C2: a sync_to_rm call leaves its item tagged synced and without        *)
(* to_sync if and only if the tablet accepted at least one of its PDF     *)
(* attachments in that call; otherwise the tags are as before (to_sync).  *)
C2_SyncedIffUploaded ==
    SyncDone =>
        IF last.uploaded # {}
        THEN "synced" \in itemTags[last.item] /\ "to_sync" \notin itemTags[last.item]
        ELSE "synced" \notin itemTags[last.item] /\ "to_sync" \in itemTags[last.item]

(* C3: after add_to_zotero the source file of a transfer whose container  *)
(* or properties upload failed still exists locally.                      *)
C3_SourceKeptOnFailure ==
    (UploadDone /\ last.stored /\ webdav) =>
        \A n \in 1..Len(last.files) :
            (last.files[n].key # 0
               /\ ~(last.files[n].zipOk /\ last.files[n].propOk))
            => IsFile(local[last.files[n].path])

(* C4: a zotero_upload call whose matching attachment already carries     *)
(* annotated stores nothing: no store call, no new attachment record, no   *)
(* tag change, the remote store as before; and every call that does store  *)
(* found its attachment without the tag.                                   *)
C4_AnnotatedNotStoredAgain ==
    [][last'.op = "zotero_upload" =>
          LET m == FirstMatch(itemTags, atts, PdfName(last'.stem))
          IN /\ (m # 0 /\ "annotated" \in atts[m].tags) =>
                    /\ ~last'.stored
                    /\ atts' = atts
                    /\ itemTags' = itemTags
                    /\ remote' = remote
             /\ last'.stored =>
                    (m # 0 /\ last'.matched = m /\ "annotated" \notin atts[m].tags)
      ]_vars

C4_Witness ==
    /\ UploadDone /\ last.wasAnnotated /\ ~last.stored
    /\ "annotated" \in atts[last.matched].tags

(* C5: a sync_to_rm call uploads no attachment that the tablet accepted   *)
(* in an earlier call.                                                    *)
C5_NoSecondUpload ==
    [][last'.op = "sync_to_rm" => last'.uploaded \cap sent = {}]_vars

(* a call on item i uploaded some of its PDF attachments and not all *)
PartialSync(i) ==
    /\ SyncDone /\ last.item = i /\ last.uploaded # {}
    /\ \E n \in 1..Len(PdfChildren(atts, i)) : PdfChildren(atts, i)[n] \notin sent

(* C6: the failed attachments of a partial sync are left for the next    *)
(* pass: after a sync_to_rm call that uploaded some PDF attachments of    *)
(* its item and not all of them, the item still carries to_sync, the tag  *)
(* by which the next pass selects the items whose attachments it         *)
(* attempts.                                                              *)
C6_FailedLeftForNextPass ==
    \A i \in Items : PartialSync(i) => "to_sync" \in itemTags[i]

(* no call tags an item to_sync: an item that lost the tag is not         *)
(* selected by any later pass                                             *)
C6_ToSyncNeverAdded ==
    [][\A i \in Items : "to_sync" \in itemTags'[i] => "to_sync" \in itemTags[i]]_vars

(* C7: every PDF attachment of the item is attempted exactly once per     *)
(* sync_to_rm call, whatever happens to its siblings, and the item ends   *)
(* tagged synced as soon as one of them was uploaded.                     *)
C7_SiblingsAttempted ==
    SyncDone =>
        /\ last.attempted = PdfChildren(atts, last.item)
        /\ last.uploaded # {} => "synced" \in itemTags[last.item]

(* C8: when every put fails, webdav_uploader calls put exactly            *)
(* MaxAttempts times and returns False without raising.                   *)
C8_RetryBound ==
    (PutDone /\ \A i \in 1..MaxAttempts : PutPat[i] # "ok") =>
        /\ PutRes.calls = MaxAttempts
        /\ ~PutRes.ok
        /\ ~PutRes.raised

C8_Witness ==
    /\ PutDone
    /\ \A i \in 1..MaxAttempts : PutPat[i] = "fail"
    /\ PutRes.calls = MaxAttempts /\ ~PutRes.ok

(* C9: when the store reports the path as not found, put is called        *)
(* exactly once and no backoff sleep follows.                             *)
C9_NotFoundNotRetried ==
    (PutDone /\ PutPat[1] = "notfound") =>
        /\ PutRes.calls = 1
        /\ PutRes.sleeps = 0
        /\ ~PutRes.ok

(* attachment k carries annotated after the step and did not before *)
Gained(k) ==
    /\ "annotated" \in atts'[k].tags
    /\ (k > Len(atts) \/ "annotated" \notin atts[k].tags)

(* C10: a zotero_upload call changes the tags of no item, and the only    *)
(* attachment that may gain annotated is the matched one, whose filename  *)
(* is the pre-rename name of the rendered file.                           *)
C10_TagOnAttachmentOnly ==
    [][last'.op = "zotero_upload" =>
          /\ itemTags' = itemTags
          /\ \A k \in 1..Len(atts') :
                 Gained(k) => /\ k <= Len(atts)
                              /\ atts[k].name = PdfName(last'.stem)
                              /\ k = last'.matched
          /\ \A k \in 1..Len(atts) : atts[k].tags \subseteq atts'[k].tags
      ]_vars

C10_Witness ==
    /\ UploadDone /\ last.stored /\ last.success
    /\ "annotated" \in atts[last.matched].tags
    /\ atts[last.matched].name = PdfName(last.stem)

(* the rendered file a zotero_upload step was called on found no          *)
(* attachment of that filename under the items tagged synced              *)
NoMatchStep ==
    /\ last'.op = "zotero_upload"
    /\ FirstMatch(itemTags, atts, PdfName(last'.stem)) = 0

(* C11 as stated: when zotero_upload finds no matching attachment, the    *)
(* rendered file is still at its path "{stem}.pdf", nothing is stored, no *)
(* attachment record is created and no tag is changed.                    *)
C11_LeftInPlace ==
    [][NoMatchStep =>
          /\ local'[PdfName(last'.stem)] = local[PdfName(last'.stem)]
          /\ ~last'.stored
          /\ atts' = atts
          /\ itemTags' = itemTags
          /\ remote' = remote
      ]_vars

(* C11, amended: when zotero_upload finds no matching attachment, the     *)
(* rendered file is not deleted: its bytes are in the scratch directory   *)
(* under the name "(Annotated) {stem}.pdf" it was renamed to before the   *)
(* search; nothing is stored, no attachment record is created and no tag  *)
(* is changed.                                                            *)
C11_NoMatchKeepsFile ==
    [][NoMatchStep =>
          /\ IsFile(local'[AnnotatedName(last'.stem)])
          /\ local'[AnnotatedName(last'.stem)] = local[PdfName(last'.stem)]
          /\ ~IsFile(local'[PdfName(last'.stem)])
          /\ ~last'.stored
          /\ atts' = atts
          /\ itemTags' = itemTags
          /\ remote' = remote
      ]_vars

C11_Witness ==
    /\ UploadDone /\ last.matched = 0 /\ ~last.stored
    /\ FirstMatch(itemTags, atts, PdfName(last.stem)) = 0
    /\ IsFile(local[AnnotatedName(last.stem)])
    /\ ~IsFile(local[PdfName(last.stem)])

(* the scratch directory holds neither the fetched file nor the           *)
(* downloaded container of attachment k                                   *)
ScratchClean(k) ==
    /\ ~IsFile(local[atts[k].name])
    /\ ~IsFile(local[ZipPath(k)])

(* C12: after a sync_to_rm call that returned, the scratch directory      *)
(* holds no fetched PDF and no downloaded container zip of any attachment *)
(* the call processed, whether the tablet accepted the file or not.       *)
C12_NoScratchLeftover ==
    (SyncDone /\ ~last.raised) =>
        \A n \in 1..Len(last.attempted) : ScratchClean(last.attempted[n])

(* the success path alone: a call in which the tablet accepted every      *)
(* attachment it processed leaves none of their files behind              *)
C12_SuccessPathClean ==
    (SyncDone /\ ~last.raised
       /\ \A n \in 1..Len(last.attempted) : last.attempted[n] \in last.uploaded) =>
        \A n \in 1..Len(last.attempted) : ScratchClean(last.attempted[n])

FetchDone == last.op = "webdav_downloader"

(* an archive that does not hold exactly one entry *)
Malformed(z) == z.kind = "zip" /\ Len(z.entries) # 1

(* C13: webdav_downloader rejects every fetched container that holds no   *)
(* entry or more than one: the call fails, nothing is extracted to the    *)
(* scratch directory, and sync_to_rm pushes no file of such a container   *)
(* to the tablet.                                                         *)
C13_MalformedRejected ==
    [][/\ (last'.op = "webdav_downloader" /\ last'.puts = <<"ok">>
            /\ Malformed(remote[ZipPath(last'.item)])) =>
              /\ last'.raised
              /\ \A n \in Names : local'[n] = local[n]
              /\ cwd' = cwd
       /\ last'.op = "sync_to_rm" =>
              \A n \in 1..Len(last'.attempted) :
                  Malformed(remote[ZipPath(last'.attempted[n])]) =>
                      last'.attempted[n] \notin last'.uploaded
      ]_vars

(* C14: the container add_to_zotero wrote under a key, fetched and        *)
(* decoded by webdav_downloader with that key, yields exactly one file:   *)
(* its name is the filename of the stored file and its bytes are the      *)
(* bytes of the stored file; no other file of the scratch directory       *)
(* changes.                                                               *)
C14_RoundTrip ==
    [][(/\ last'.op = "webdav_downloader" /\ last'.puts = <<"ok">>
        /\ last'.item > Len(CodecLibrary)
        /\ IsFile(remote[ZipPath(last'.item)])) =>
          LET k == last'.item
          IN /\ ~last'.raised
             /\ local'[atts[k].name] = RawFile(atts[k].data)
             /\ \A p \in LocalPaths \ {atts[k].name} : local'[p] = local[p]
             /\ cwd' = cwd \cup {atts[k].name}
      ]_vars

C14_Witness ==
    /\ FetchDone /\ ~last.raised
    /\ last.item > Len(CodecLibrary)
    /\ remote[ZipPath(last.item)] =
           ZipFile(<< <<atts[last.item].name, NumCodecBytes>> >>)
    /\ local[atts[last.item].name] = RawFile(NumCodecBytes)
    /\ atts[last.item].data = NumCodecBytes

StatusDone == last.op = "get_sync_status"

(* the attachments get_sync_status is to list: content type PDF, parent   *)
(* tagged read                                                            *)
ReadPdfs == {k \in 1..Len(atts) : atts[k].pdf /\ "read" \in itemTags[atts[k].parent]}

(* C15: get_sync_status returns exactly the filenames of the PDF          *)
(* attachments of the items tagged read, each as often as there are such  *)
(* attachments of that name, and the call changes no tag of an item or    *)
(* attachment, nothing on the store and nothing on the tablet.            *)
C15_ReadListExact ==
    [][last'.op = "get_sync_status" =>
          /\ \A nm \in Names :
                 Cardinality({n \in 1..Len(last'.files) : last'.files[n] = nm})
                   = Cardinality({k \in ReadPdfs : atts[k].name = nm})
          /\ \A n \in 1..Len(last'.files) : last'.files[n] \in Names
          /\ itemTags' = itemTags
          /\ atts' = atts
          /\ remote' = remote
          /\ sent' = sent
      ]_vars

C15_Witness ==
    /\ StatusDone
    /\ Len(last.files) > 0
    /\ \E k \in 1..Len(atts) : ~atts[k].pdf /\ "read" \in itemTags[atts[k].parent]
    /\ \E k \in 1..Len(atts) : atts[k].pdf /\ "read" \notin itemTags[atts[k].parent]

(* a download_from_rm step whose tablet download or whose rendering       *)
(* failed                                                                 *)
PullFailedStep ==
    /\ last'.op = "download_from_rm"
    /\ (last'.puts[1] = "fail" \/ last'.puts = <<"ok", "raise">>)

(* C16: a download_from_rm call whose tablet download or rendering failed *)
(* returns no PDF and writes none to the scratch directory, and changes   *)
(* no tag of an item or attachment, so the item stays synced.             *)
C16_FailureAborts ==
    [][PullFailedStep =>
          /\ ~last'.success
          /\ local'[PdfName(last'.stem)] = local[PdfName(last'.stem)]
          /\ itemTags' = itemTags
          /\ atts' = atts
      ]_vars

(* the part of C16 that holds: no download_from_rm call changes a tag,    *)
(* and a call whose rendering failed returns nothing                      *)
C16_TagsKept ==
    [][last'.op = "download_from_rm" =>
          /\ itemTags' = itemTags
          /\ atts' = atts
          /\ (Len(last'.puts) = 2 /\ last'.puts[2] = "raise") =>
                 (~last'.success
                    /\ local'[PdfName(last'.stem)] = local[PdfName(last'.stem)])
      ]_vars

(* the attempts of the loop on which the store accepts the put *)
Successes == {i \in 1..MaxAttempts : PutPat[i] = "ok"}

(* C17: for every pattern of put failures webdav_uploader returns True    *)
(* exactly when the store accepts one of the first MaxAttempts puts, and  *)
(* the number of puts it makes is the index of the first accepted put,    *)
(* or MaxAttempts when none is accepted.                                  *)
C17_FirstSuccessStops ==
    PutDone =>
        /\ PutRes.ok = (Successes # {})
        /\ ~PutRes.raised
        /\ PutRes.calls =
              IF Successes # {}
              THEN CHOOSE i \in Successes : \A j \in Successes : i <= j
              ELSE MaxAttempts

C17_Witness ==
    /\ PutDone
    /\ PutPat[1] = "fail" /\ PutPat[2] = "ok" /\ PutPat[3] = "ok"
    /\ PutRes.ok /\ PutRes.calls = 2

(* C18: a sync_to_rm call changes the tags of its own item only; every    *)
(* other item keeps its tag set, and an item that waits with to_sync      *)
(* still carries it after the call.                                       *)
C18_OtherItemsKeepTags ==
    [][last'.op = "sync_to_rm" =>
          \A j \in Items \ {last'.item} : itemTags'[j] = itemTags[j]
      ]_vars

(* C19: an attachment gains annotated only in a zotero_upload step whose  *)
(* store call reported success (or unchanged); on WebDAV that means that  *)
(* for every file of the upload-back the record was created and the       *)
(* container and the properties file were uploaded and are on the store;  *)
(* a step whose store call failed tags nothing.                           *)
C19_AnnotatedOnlyAfterStore ==
    [][/\ (\E k \in 1..Len(atts') : Gained(k)) =>
              /\ last'.op = "zotero_upload"
              /\ last'.stored
              /\ last'.success
              /\ webdav =>
                     /\ Len(last'.files) > 0
                     /\ \A n \in 1..Len(last'.files) :
                            /\ last'.files[n].key # 0
                            /\ last'.files[n].zipOk
                            /\ last'.files[n].propOk
                            /\ IsFile(remote'[ZipPath(last'.files[n].key)])
                            /\ IsFile(remote'[PropPath(last'.files[n].key)])
       /\ (last'.op = "zotero_upload" /\ last'.stored /\ ~last'.success) =>
              \A k \in 1..Len(atts') : ~Gained(k)
      ]_vars

C19_Witness ==
    /\ UploadDone /\ webdav /\ last.stored /\ last.success
    /\ "annotated" \in atts[last.matched].tags
    /\ Len(last.files) = 2
    /\ \A n \in 1..Len(last.files) :
           /\ last.files[n].zipOk /\ last.files[n].propOk
           /\ IsFile(remote[ZipPath(last.files[n].key)])

(* the files processed by the add_to_zotero call of the last step whose   *)
(* record creation failed                                                 *)
CreateFailed(fs) == {n \in 1..Len(fs) : fs[n].key = 0}

(* C20: add_to_zotero answers success exactly when, for every file of the *)
(* list, the record creation, the container upload and the properties     *)
(* upload succeeded; a failed record creation ends the call at once with  *)
(* success False: that file and the later ones get no record and no put   *)
(* on the store and stay in the scratch directory.                        *)
C20_SuccessIffAllStored ==
    [][(last'.op = "zotero_upload" /\ last'.stored /\ webdav) =>
          LET s == last'.stem
              pre == Rename(local, PdfName(s), AnnotatedName(s))
              paths == FilesToUpload(pre, s)
              fs == last'.files
          IN /\ Len(fs) <= Len(paths)
             /\ \A n \in 1..Len(fs) : fs[n].path = paths[n]
             /\ last'.success =
                   /\ Len(fs) = Len(paths)
                   /\ \A n \in 1..Len(fs) :
                          fs[n].key # 0 /\ fs[n].zipOk /\ fs[n].propOk
             /\ CreateFailed(fs) = {} => Len(fs) = Len(paths)
             /\ \A n \in CreateFailed(fs) :
                    /\ n = Len(fs)
                    /\ ~last'.success
                    /\ Len(atts') = Len(atts) + n - 1
                    /\ \A j \in n..Len(paths) :
                           /\ IsFile(local'[paths[j]])
                           /\ local'[paths[j]] = pre[paths[j]]
             /\ \A p \in RemotePaths :
                    remote'[p] # remote[p] =>
                        \E n \in 1..Len(fs) : fs[n].key # 0 /\ p[2] = fs[n].key
      ]_vars

C20_Witness ==
    /\ UploadDone /\ webdav /\ last.stored /\ ~last.success
    /\ Len(last.files) = 2
    /\ last.files[1].key # 0 /\ last.files[1].zipOk /\ last.files[1].propOk
    /\ last.files[2].key = 0
    /\ last.files[2].path = MdName(last.stem)
    /\ IsFile(local[MdName(last.stem)])
    /\ ~IsFile(local[AnnotatedName(last.stem)])

====
